---- MODULE Spec2Model ----
(***************************************************************************)
(* Model of talkinghead/tha3/app/app.py: the render / encode / send        *)
(* pipeline of the THA3 live mode, its control API and its lifecycle.      *)
(*                                                                         *)
(* A frame is identified by its generation: the ordinal of the RawFrame    *)
(* (Animator.result_image) it is, or is encoded from.  0 stands for None.  *)
(* The code itself identifies an encoded frame by id(), a memory address;  *)
(* the mark global_latest_frame_sent is kept as the generation of the      *)
(* frame that occupies the address it holds (MarkAfterAllocate).           *)
(***************************************************************************)
EXTENDS Integers, FiniteSets, Sequences, TLC

\* ---------------------------------------------------------------- bounds
MaxFrames == 3          \* RawFrames rendered in one run of the model
MaxSessions == 2        \* calls of launch() in one run of the model
MaxItems == 2           \* entries of a list passed to setEmotion
MaxTime == 12           \* seconds on the clock at the last render tick

None == 0
Clients == {"c1", "c2"}

\* Morph values are counted in hundredths.
Scale == 100

\* The morph channels of a pose that the drivers write (posedict_keys has
\* more): one swayed channel, the mouth, the two eyes, the breathing.
Channels == {"head_x_index", "mouth_aaa_index", "eye_wink_left_index",
             "eye_wink_right_index", "breathing_index"}

\* Line 476, of which one channel is kept.
SWAYPARTS == {"head_x_index"}

\* A pose that is None.
NoPose == [k \in {} |-> 0]

\* Lines 473-474, 532, 545: random_max = 0.6, noise_max = 0.02, a breathing
\* cycle of 4 seconds, an interpolation step of 0.1.
random_max == 60
noise_max == 2
breathing_cycle_duration == 4
StepDivisor == 10

\* random.uniform(a, b) returns a, the middle or b: u is 0, 1 or 2.
UniformSteps == 2

\* The uploads talkinghead_load_file can be given: a PNG with alpha channel,
\* an image without one, data PIL cannot identify, a stream whose decoding
\* raises something else, an image that decodes but fails in load_image.
UploadKinds == {"rgba", "noalpha", "garbage", "oserror", "broken"}

VARIABLES
    \* module-level globals (lines 43-55)
    global_animator_instance,   \* 0 (None) or the session that created it
    global_encoder_instance,    \* 0 (None) or the session that created it
    global_latest_frame_sent,   \* 0 (None) or the frame at the address held
    animation_running,
    global_reload_image,        \* "none" or an image
    \* the Animator object of the current session
    source_image,               \* "none", "placeholder", "rgba"
    result_image,               \* generation of the last published RawFrame
    new_frame_available,
    animTerminated,             \* Animator._terminated
    animator_thread,            \* "none" (handle None), "running", "returned", "crashed"
    animPc,                     \* position of the render thread
    animPil,                    \* load_image's local pil_image
    \* the Encoder object of the current session
    image_bytes,                \* Encoder.image_bytes: published EncodedFrame
    encTerminated,              \* Encoder._terminated
    encoder_thread,             \* as animator_thread
    encPc,                      \* position of the encoder thread
    image_rgba,                 \* encoder_update's local: the RawFrame taken
    encNew,                     \* encoder_update's local image_bytes, before publish
    previous_frame,             \* encoder_update's local previous_frame
    retained,                   \* image_bytes of earlier Encoders (kept alive by atexit)
    \* result_feed.generate, one per client
    sendPc,                     \* "off", "read", "mark" (suspended in the yield)
    sendFrame,                  \* generate's local image_bytes
    \* talkinghead_load_file in progress
    loadPc,                     \* "idle", "open", "finally"
    \* the environment of a run: the uploads made, the streams opened, the
    \* number of frames rendered before the run is cut, the calls of launch()
    uploads,
    streams,
    frameLimit,
    launchLimit,
    \* launch() / process exit
    ctl,
    process,                    \* "running", "dead"
    \* history (not program state)
    session,                    \* launches so far
    rawCount,                   \* RawFrames published so far
    sessBase,                   \* rawCount when the current session was created
    emitted,                    \* generations emitted to some client at least once
    lastEmitted,                \* per client: last generation emitted on this stream
    lastTaken,                  \* last RawFrame generation the Encoder took
    failed,                     \* loops of this session in which an exception was raised
    lastUpload,                 \* kind of the last upload decoded
    lastInstalled,              \* image the last load_image of this Animator worked on
    \* module-level API state (lines 53-54) and the calls made on it
    current_emotion,
    is_talking,
    callers,                    \* environment: who calls setEmotion
    lastOutcome,                \* "none", "returned", "raised": last setEmotion call
    lastWarned,                 \* the last setEmotion call logged its warning
    lastMax,                    \* labels of maximal score in the last list passed
    callFlip,                   \* flips at every setEmotion call
    \* the Animator's animation state (lines 335-349)
    current_pose,               \* NoPose (None) or a value per morph channel
    last_emotion,
    last_emotion_change_timestamp,
    last_blink_timestamp,
    blink_interval,             \* 0 (None) or seconds
    last_sway_target_timestamp,
    last_sway_target_pose,      \* NoPose (None) or the cached list
    sway_interval,              \* 0 (None) or seconds
    breathing_epoch,
    \* the environment of the drivers: the emotion presets loaded at line
    \* 306, the values the random calls return, the seconds that pass
    \* between two render ticks
    world,
    \* the clock, and what the last render tick computed (not program state)
    now,                        \* time.time_ns(), in seconds
    resetTime,                  \* clock at the last reset_animation_state
    cycle_pos,                  \* animate_breathing's cycle_pos, in quarters of a cycle
    recomputed,                 \* macrosway picked a new sway target
    swayBase,                   \* target_value of the last new sway target
    swayPicked,                 \* target_value + random_value of the last new target
    integrated,                 \* the pose interpolate_pose returned
    talked,                     \* is_talking as animate_talking read it
    presetUsed,                 \* the emotion whose preset line 600 took
    blinkDrawn,                 \* should_blink as line 411 drew it
    blinkGate,                  \* "first", "elapsed", "override", "closed": the tick's
                                \* place in the blink interval
    \* the lock of line 44 and the critical sections it protects
    animator_output_lock,       \* "none", "animator", "encoder": the thread holding it
    output_image_numpy,         \* render_animation_frame's local: the frame to publish
    flagSetBy,                  \* the RawFrame of the publish that set the flag
    \* what the render tick in progress started from (not program state)
    tickSource,                 \* source_image at line 583; "idle" between two ticks
    exitRaised                  \* exit() calls of atexit that raised (not program state)

globals == <<global_animator_instance, global_encoder_instance,
             global_latest_frame_sent, animation_running, global_reload_image>>
animVars == <<source_image, result_image, new_frame_available, animTerminated,
              animator_thread, animPc, animPil>>
encVars == <<image_bytes, encTerminated, encoder_thread, encPc, image_rgba,
             encNew, previous_frame, retained>>
sendVars == <<sendPc, sendFrame>>
loadVars == <<loadPc, uploads, streams, frameLimit, launchLimit>>
ctlVars == <<ctl, process>>
histVars == <<session, rawCount, sessBase, emitted, lastEmitted, lastTaken, failed,
             lastUpload, lastInstalled>>
apiVars == <<current_emotion, is_talking, callers, lastOutcome, lastWarned, lastMax,
            callFlip>>
poseVars == <<current_pose, last_emotion, last_emotion_change_timestamp,
              last_blink_timestamp, blink_interval, last_sway_target_timestamp,
              last_sway_target_pose, sway_interval, breathing_epoch>>
envVars == <<world>>
tickVars == <<now, resetTime, cycle_pos, recomputed, swayBase, swayPicked, integrated,
              talked, presetUsed, blinkDrawn, blinkGate>>
lockVars == <<animator_output_lock, output_image_numpy, flagSetBy>>
traceVars == <<tickSource, exitRaised>>
driverVars == <<apiVars, poseVars, envVars, tickVars, lockVars, traceVars>>
vars == <<globals, animVars, encVars, sendVars, loadVars, ctlVars, histVars,
          driverVars>>

\* ------------------------------------------------------------------ Init
\* Module import: lines 43-55; no Animator or Encoder exists yet.
Imported ==
    /\ global_animator_instance = None
    /\ global_encoder_instance = None
    /\ global_latest_frame_sent = None
    /\ animation_running = FALSE
    /\ global_reload_image = "none"
    /\ source_image = "none"
    /\ result_image = None
    /\ new_frame_available = FALSE
    /\ animTerminated = FALSE
    /\ animator_thread = "none"
    /\ animPc = "loop"
    /\ animPil = "none"
    /\ image_bytes = None
    /\ encTerminated = FALSE
    /\ encoder_thread = "none"
    /\ encPc = "loop"
    /\ image_rgba = None
    /\ encNew = None
    /\ previous_frame = None
    /\ retained = {}
    /\ sendPc = [c \in Clients |-> "off"]
    /\ sendFrame = [c \in Clients |-> None]
    /\ loadPc = "idle"
    /\ ctl = "idle"
    /\ process = "running"
    /\ session = 0
    /\ rawCount = 0
    /\ sessBase = 0
    /\ emitted = {}
    /\ lastEmitted = [c \in Clients |-> None]
    /\ lastTaken = None
    /\ failed = {}
    /\ lastUpload = "none"
    /\ lastInstalled = "none"
    /\ current_emotion = "neutral"
    /\ is_talking = FALSE
    /\ lastOutcome = "none"
    /\ lastWarned = FALSE
    /\ lastMax = {}
    /\ callFlip = FALSE
    /\ current_pose = NoPose
    /\ last_emotion = "None"
    /\ last_emotion_change_timestamp = None
    /\ last_blink_timestamp = None
    /\ blink_interval = None
    /\ last_sway_target_timestamp = None
    /\ last_sway_target_pose = NoPose
    /\ sway_interval = None
    /\ breathing_epoch = None
    /\ now = 0
    /\ resetTime = 0
    /\ cycle_pos = 0
    /\ recomputed = FALSE
    /\ swayBase = 0
    /\ swayPicked = 0
    /\ integrated = NoPose
    /\ talked = FALSE
    /\ presetUsed = "None"
    /\ blinkDrawn = FALSE
    /\ blinkGate = "first"
    /\ animator_output_lock = "none"
    /\ output_image_numpy = None
    /\ flagSetBy = None
    /\ tickSource = "idle"
    /\ exitRaised = 0

\* The emotions that have a preset.
Emotions == {"neutral", "joy", "confusion"}

\* Line 306: the emotion presets load_emotion_presets returned. In the
\* posed world they sit at the ends of the legal ranges and the preset of
\* joy has no breathing key; in the others every preset is the zero pose.
emotions ==
    IF world = "posed"
    THEN [e \in Emotions |->
             IF e = "neutral"
             THEN [k \in Channels |-> IF k = "head_x_index" THEN -Scale ELSE 0]
             ELSE [k \in Channels \ {"breathing_index"} |-> Scale]]
    ELSE [e \in Emotions |-> [k \in Channels |-> 0]]

\* What the random calls of a render tick may return (0 and 2: the ends of
\* the range, 1: its middle). In the posed world a blink is drawn at every
\* tick (the two seconds between blinks suppress some) and the calls return
\* the ends of their ranges; in the blinking world a blink is drawn or not
\* and lasts two or five seconds; in the others nobody blinks and every call
\* returns the middle.
chance ==
    CASE world = "posed" ->
             [blink |-> {TRUE}, blink_interval |-> {0}, talk |-> {0, 2},
              sway |-> {0, 2}, sway_interval |-> {0}, noise |-> {0, 2}]
      [] world = "blinking" ->
             [blink |-> {TRUE, FALSE}, blink_interval |-> {0, 2}, talk |-> {1},
              sway |-> {1}, sway_interval |-> {1}, noise |-> {1}]
      [] OTHER ->
             [blink |-> {FALSE}, blink_interval |-> {1}, talk |-> {1},
              sway |-> {1}, sway_interval |-> {1}, noise |-> {1}]

\* The seconds that pass on the clock between two render ticks: none in
\* the still world, one in the posed world, one or five in the breathing
\* world, one or ten in the blinking world.
clockSteps ==
    CASE world = "posed" -> {1}
      [] world = "breathing" -> {1, 5}
      [] world = "blinking" -> {1, 10}
      [] OTHER -> {0}

\* Every preset is the zero pose, every random call returns the middle of
\* its range, nobody blinks and no time passes on the clock.
StillWorld == world = "still"

\* The control surface is not called.
PipelineOnly ==
    /\ callers = "none"
    /\ StillWorld

\* One stream, uploads of images with alpha channel only.
Init ==
    /\ Imported
    /\ PipelineOnly
    /\ uploads = {"rgba"}
    /\ streams = {"c1"}
    /\ frameLimit = MaxFrames
    /\ launchLimit = MaxSessions

Alive == process = "running"

\* ------------------------------------------------- control API (64-114)
\* unload(): pause the animation.
Unload ==
    /\ Alive
    /\ animation_running
    /\ animation_running' = FALSE
    /\ UNCHANGED <<global_animator_instance, global_encoder_instance,
                   global_latest_frame_sent, global_reload_image>>
    /\ UNCHANGED <<animVars, encVars, sendVars, loadVars, ctlVars, histVars>>
    /\ UNCHANGED driverVars

\* talkinghead_load_file, line 231: pause while the upload is decoded.
LoadFileBegin ==
    /\ Alive
    /\ loadPc = "idle"
    /\ loadPc' = "open"
    /\ animation_running' = FALSE
    /\ UNCHANGED <<global_animator_instance, global_encoder_instance,
                   global_latest_frame_sent, global_reload_image>>
    /\ UNCHANGED <<uploads, streams, frameLimit, launchLimit>>
    /\ UNCHANGED <<animVars, encVars, sendVars, ctlVars, histVars>>
    /\ UNCHANGED driverVars

\* What lines 232-239 leave in global_reload_image for an upload of kind k:
\* a decodable image is stored (with or without alpha channel; "broken" decodes
\* here and fails later in load_image), unidentifiable data is replaced by the
\* bundled inital.png, any other exception leaves the global as it was.
DecodedUpload(k, old) ==
    CASE k = "rgba" -> "rgba"
      [] k = "noalpha" -> "noalpha"
      [] k = "broken" -> "broken"
      [] k = "garbage" -> "placeholder"
      [] OTHER -> old

\* talkinghead_load_file, lines 232-239.
LoadFileDecode ==
    /\ Alive
    /\ loadPc = "open"
    /\ \E k \in uploads :
          /\ global_reload_image' = DecodedUpload(k, global_reload_image)
          /\ lastUpload' = k
    /\ loadPc' = "finally"
    /\ UNCHANGED <<global_animator_instance, global_encoder_instance,
                   global_latest_frame_sent, animation_running>>
    /\ UNCHANGED <<uploads, streams, frameLimit, launchLimit>>
    /\ UNCHANGED <<session, rawCount, sessBase, emitted, lastEmitted, lastTaken, failed,
                   lastInstalled>>
    /\ UNCHANGED <<animVars, encVars, sendVars, ctlVars>>
    /\ UNCHANGED driverVars

\* talkinghead_load_file, lines 240-242: resume, whatever happened.
LoadFileFinally ==
    /\ Alive
    /\ loadPc = "finally"
    /\ animation_running' = TRUE
    /\ loadPc' = "idle"
    /\ UNCHANGED <<global_animator_instance, global_encoder_instance,
                   global_latest_frame_sent, global_reload_image>>
    /\ UNCHANGED <<uploads, streams, frameLimit, launchLimit>>
    /\ UNCHANGED <<animVars, encVars, sendVars, ctlVars, histVars>>
    /\ UNCHANGED driverVars

\* The labels a caller passes, the labels of the Animator's emotion presets
\* (line 306) and the confidences of a sentiment result, in halves.
Labels == {"joy", "joyyy"}
Scores == {1, 2}
EmotionLists ==
    UNION {[1..n -> [label : Labels, score : Scores]] : n \in 0..MaxItems}

\* Line 76: float("-inf") is below every score.
MinusInf == 0

\* A comparison that keeps the lowest score.
ScoreBelow(score, highest) == score < highest

\* Line 80: item["score"] > highest_score.
ScoreBeats(score, highest) == score > highest

\* Lines 76-82: the loop over the first n items; the result is the pair
\* highest_score, highest_label (None before any item was taken).
RECURSIVE Highest(_, _)
Highest(items, n) ==
    IF n = 0 THEN [score |-> MinusInf, label |-> "None"]
    ELSE LET h == Highest(items, n - 1) IN
         IF ScoreBeats(items[n].score, h.score)
         THEN [score |-> items[n].score, label |-> items[n].label]
         ELSE h

HighestLabel(items) == Highest(items, Len(items)).label

\* The labels of a list whose score no other entry of the list exceeds.
MaxLabels(items) ==
    {items[i].label : i \in {i \in 1..Len(items) :
                                \A j \in 1..Len(items) : items[j].score <= items[i].score}}

\* The set_emotion endpoint: a list of one entry, the label known.
SingleEmotion == {<<[label |-> "joy", score |-> 1]>>}

\* The endpoint's list for the emotion that overrides the blink interval.
ConfusionOnly == {<<[label |-> "confusion", score |-> 1]>>}

\* The lists setEmotion is called with: any list from the classifier, the
\* endpoint's list of one entry, or no call at all.
requests ==
    CASE callers = "classifier" -> EmotionLists
      [] callers = "endpoint" -> SingleEmotion
      [] callers = "confused" -> ConfusionOnly
      [] OTHER -> {}

\* setEmotion (64-93). Line 87 reads global_animator_instance.emotions: with
\* no Animator (before launch(), or between lines 260 and 265 of a relaunch)
\* this raises AttributeError and current_emotion is not written.
SetEmotion ==
    /\ Alive
    /\ \E items \in requests :
          LET highest_label == HighestLabel(items) IN
          /\ lastMax' = MaxLabels(items)
          /\ IF global_animator_instance = None
             THEN /\ lastOutcome' = "raised"
                  /\ lastWarned' = FALSE
                  /\ UNCHANGED current_emotion
             ELSE /\ lastOutcome' = "returned"
                  /\ lastWarned' = (highest_label \notin Emotions)
                  /\ current_emotion' = IF highest_label \notin Emotions
                                        THEN "neutral" ELSE highest_label
    /\ callFlip' = ~callFlip
    /\ UNCHANGED <<is_talking, callers>>
    /\ UNCHANGED <<poseVars, envVars, traceVars, tickVars, lockVars>>
    /\ UNCHANGED <<globals, animVars, encVars, sendVars, loadVars, ctlVars, histVars>>

\* start_talking (102-107).
StartTalking ==
    /\ Alive
    /\ ~is_talking
    /\ is_talking' = TRUE
    /\ UNCHANGED <<current_emotion, callers, lastOutcome, lastWarned, lastMax, callFlip>>
    /\ UNCHANGED <<poseVars, envVars, traceVars, tickVars, lockVars>>
    /\ UNCHANGED <<globals, animVars, encVars, sendVars, loadVars, ctlVars, histVars>>

\* stop_talking (109-114).
StopTalking ==
    /\ Alive
    /\ is_talking
    /\ is_talking' = FALSE
    /\ UNCHANGED <<current_emotion, callers, lastOutcome, lastWarned, lastMax, callFlip>>
    /\ UNCHANGED <<poseVars, envVars, traceVars, tickVars, lockVars>>
    /\ UNCHANGED <<globals, animVars, encVars, sendVars, loadVars, ctlVars, histVars>>

\* ------------------------------------------------ Animator.load_image
\* A load_image that falls back to the placeholder on every failure.
InstalledOrPlaceholder(pil, old) == IF pil = "rgba" THEN "rgba" ELSE "placeholder"

\* Lines 369-385: the source image an image leaves behind.  An image without
\* alpha channel clears the source image (379); an exception keeps the old one.
InstalledImage(pil, old) ==
    CASE pil \in {"rgba", "placeholder"} -> pil
      [] pil = "noalpha" -> "none"
      [] OTHER -> old

\* ------------------------------------------- animation drivers (335-575)
Min(a, b) == IF a < b THEN a ELSE b
Max(a, b) == IF a > b THEN a ELSE b
Abs(a) == IF a < 0 THEN -a ELSE a
Clamp(x, lo, hi) == Max(lo, Min(x, hi))

Uniform(a, b, u) == a + ((b - a) * u) \div UniformSteps

\* math.sin(cycle_pos * math.pi)**2 at a quarter q of the cycle.
SinSquared(q) == CASE q = 0 -> 0 [] q = 1 -> Scale \div 2 [] q = 2 -> Scale
                   [] q = 3 -> Scale \div 2

\* posedict_to_pose (tha3.app.util): the values of the preset, in the order
\* of posedict_keys.
posedict_to_pose(posedict) ==
    [k \in Channels |-> IF k \in DOMAIN posedict THEN posedict[k] ELSE 0]

\* Lines 393-403.
apply_emotion_to_pose(emotion_posedict, pose) ==
    [k \in Channels |->
        IF k \in DOMAIN emotion_posedict /\ k # "breathing_index"
        THEN emotion_posedict[k] ELSE pose[k]]

\* Lines 479-486.
should_pick_new_sway_target(emotion, time_now) ==
    ~(/\ emotion = last_emotion
      /\ sway_interval # None
      /\ time_now - last_sway_target_timestamp < sway_interval)

\* Lines 503-504.
random_upper(target_value) == Max(0, random_max - target_value)
random_lower(target_value) == Min(0, -random_max - target_value)

\* Lines 494-507: the new sway target, from the draw u of line 505.
NewSwayTarget(original_target_pose, u) ==
    [k \in Channels |->
        IF k \in SWAYPARTS
        THEN original_target_pose[k]
               + Uniform(random_lower(original_target_pose[k]),
                         random_upper(original_target_pose[k]), u)
        ELSE original_target_pose[k]]

\* Lines 478-512: the list macrosway returns.
macrosway(original_target_pose, emotion, time_now, u) ==
    IF should_pick_new_sway_target(emotion, time_now)
    THEN NewSwayTarget(original_target_pose, u)
    ELSE IF last_sway_target_pose # NoPose THEN last_sway_target_pose
         ELSE original_target_pose

\* Lines 515-520: the list after add_microsway has written to it.
add_microsway(new_target_pose, u) ==
    [k \in Channels |->
        IF k \in SWAYPARTS
        THEN Clamp(new_target_pose[k] + Uniform(-noise_max, noise_max, u), -Scale, Scale)
        ELSE new_target_pose[k]]

\* Lines 491, 509 and 522-523: the list macrosway returns is the cached list
\* itself, or becomes it, unless nothing was cached and nothing picked; the
\* cache therefore holds what add_microsway wrote.
CacheAfterSway(picked, returned) ==
    IF picked \/ last_sway_target_pose # NoPose THEN returned
    ELSE last_sway_target_pose

\* Lines 561-574.
interpolate_pose(pose, target_pose) ==
    [k \in Channels |-> pose[k] + (target_pose[k] - pose[k]) \div StepDivisor]

\* A blink interval that suppresses nothing.
BlinkNeverSuppressed(emotion, time_now, emotion_change) == FALSE

\* Where a tick stands in the blink interval: no blink accepted yet, the
\* interval of the last accepted blink elapsed, not elapsed with the emotion
\* "confusion" entered less than ten seconds ago, or not elapsed.
BlinkGate(emotion, time_now, emotion_change) ==
    CASE blink_interval = None -> "first"
      [] blink_interval # None /\ time_now - last_blink_timestamp >= blink_interval ->
             "elapsed"
      [] OTHER -> IF emotion = "confusion" /\ time_now - emotion_change < 10
                  THEN "override" ELSE "closed"

\* Lines 410-421: a blink drawn now is suppressed.
BlinkSuppressed(emotion, time_now, emotion_change) ==
    /\ blink_interval # None
    /\ ~(emotion = "confusion" /\ time_now - emotion_change < 10)
    /\ time_now - last_blink_timestamp < blink_interval

\* Lines 426-432.
Blinked(pose) ==
    [pose EXCEPT !["eye_wink_left_index"] = Scale, !["eye_wink_right_index"] = Scale]

\* A talking driver that does not clamp.
talk_without_clamp(pose, talking, u) ==
    IF ~talking THEN pose
    ELSE [pose EXCEPT !["mouth_aaa_index"] =
              Abs(Scale - @) + Uniform(-2 * Scale, 2 * Scale, u)]

\* A talking driver that animates the mouth whether or not is_talking is set.
talk_when_silent(pose, talking, u) ==
    [pose EXCEPT !["mouth_aaa_index"] =
        Clamp(Abs(Scale - @) + Uniform(-2 * Scale, 2 * Scale, u), 0, Scale)]

\* Lines 446-456.
animate_talking(pose, talking, u) ==
    IF ~talking THEN pose
    ELSE [pose EXCEPT !["mouth_aaa_index"] =
              Clamp(Abs(Scale - @) + Uniform(-2 * Scale, 2 * Scale, u), 0, Scale)]

\* Lines 534-542: with whole seconds on the clock, cycle_pos is a number of
\* quarters of a cycle.
animate_breathing(pose, time_now) ==
    [pose EXCEPT !["breathing_index"] =
        SinSquared((time_now - breathing_epoch) % breathing_cycle_duration)]

\* Lines 535-537: the epoch after animate_breathing.
EpochAfterBreathing(time_now) ==
    IF time_now - breathing_epoch > breathing_cycle_duration
    THEN time_now ELSE breathing_epoch

\* reset_animation_state (335-349).
ResetAnimationState ==
    /\ current_pose' = NoPose
    /\ last_emotion' = "None"
    /\ last_emotion_change_timestamp' = None
    /\ last_blink_timestamp' = None
    /\ blink_interval' = None
    /\ last_sway_target_timestamp' = None
    /\ last_sway_target_pose' = NoPose
    /\ sway_interval' = None
    /\ breathing_epoch' = now
    /\ resetTime' = now
    /\ presetUsed' = "None"
    /\ UNCHANGED <<now, cycle_pos, recomputed, swayBase, swayPicked, integrated, talked,
                   blinkDrawn, blinkGate>>

\* Lines 595-611: the pose of the frame, dt seconds after the previous tick.
PoseDrive(dt, should_blink, bi, tk, sw, si, nz) ==
    LET time_now == now + dt
        emotion == current_emotion
        start_pose == IF current_pose = NoPose
                      THEN posedict_to_pose(emotions[emotion]) ELSE current_pose
        emotion_change == IF emotion # last_emotion THEN time_now
                          ELSE last_emotion_change_timestamp
        emotion_target == apply_emotion_to_pose(emotions[emotion], start_pose)
        picked == should_pick_new_sway_target(emotion, time_now)
        new_target_pose == macrosway(emotion_target, emotion, time_now, sw)
        target_pose == add_microsway(new_target_pose, nz)
        interpolated == interpolate_pose(start_pose, target_pose)
        blinks == should_blink /\ ~BlinkSuppressed(emotion, time_now, emotion_change)
        blinked == IF blinks THEN Blinked(interpolated) ELSE interpolated
        spoken == animate_talking(blinked, is_talking, tk)
    IN  /\ time_now <= MaxTime
        /\ now' = time_now
        /\ last_emotion_change_timestamp' = emotion_change
        /\ last_sway_target_pose' = CacheAfterSway(picked, target_pose)
        /\ last_sway_target_timestamp' =
              IF picked THEN time_now ELSE last_sway_target_timestamp
        /\ sway_interval' =
              IF picked THEN Uniform(5, 10, si) ELSE sway_interval
        /\ last_blink_timestamp' = IF blinks THEN time_now ELSE last_blink_timestamp
        /\ blink_interval' = IF blinks THEN Uniform(2, 5, bi) ELSE blink_interval
        /\ current_pose' = animate_breathing(spoken, time_now)
        /\ breathing_epoch' = EpochAfterBreathing(time_now)
        /\ presetUsed' = emotion
        /\ cycle_pos' = (time_now - breathing_epoch) % breathing_cycle_duration
        /\ recomputed' = picked
        /\ swayBase' = IF picked THEN emotion_target["head_x_index"] ELSE swayBase
        /\ swayPicked' = IF picked THEN new_target_pose["head_x_index"] ELSE swayPicked
        /\ integrated' = interpolated
        /\ talked' = is_talking
        /\ blinkDrawn' = should_blink
        /\ blinkGate' = BlinkGate(emotion, time_now, emotion_change)
        /\ UNCHANGED resetTime

\* Lines 595-613: the drivers, then last_emotion = current_emotion.
PoseTick(dt, should_blink, bi, tk, sw, si, nz) ==
    /\ PoseDrive(dt, should_blink, bi, tk, sw, si, nz)
    /\ last_emotion' = current_emotion

\* ------------------------------------------------ render thread (311-655)
\* A tick that renders although the published frame is unconsumed.
FrameNeverUnconsumed == FALSE

\* Line 587: the previous frame has not been retrieved yet.
FrameStillUnconsumed == new_frame_available

\* A tick that goes on although the animation is paused.
NeverPaused == FALSE

\* Line 583: if not animation_running: return.
AnimationPaused == ~animation_running

\* animator_update, line 315, and render_animation_frame, lines 583-588:
\* the loop ends when terminated; a tick is skipped while paused or while
\* the published frame is unconsumed; otherwise the tick goes on.
AnimatorLoop ==
    /\ Alive
    /\ animator_thread = "running"
    /\ animPc = "loop"
    /\ \/ /\ animTerminated
          /\ animator_thread' = "returned"
          /\ animPc' = animPc
          /\ UNCHANGED traceVars
       \/ /\ ~animTerminated
          /\ ~AnimationPaused /\ ~FrameStillUnconsumed
          /\ rawCount < frameLimit
          /\ animPc' = "reload"
          /\ animator_thread' = animator_thread
          /\ tickSource' = source_image
          /\ UNCHANGED exitRaised
    /\ UNCHANGED <<source_image, result_image, new_frame_available, animTerminated, animPil>>
    /\ UNCHANGED <<globals, encVars, sendVars, loadVars, ctlVars, histVars>>
    /\ UNCHANGED <<apiVars, poseVars, envVars, tickVars, lockVars>>

\* Lines 590-591 and 362-363: read the pending reload image, if any.
AnimatorReload ==
    /\ Alive
    /\ animator_thread = "running"
    /\ animPc = "reload"
    /\ \/ /\ global_reload_image # "none"
          /\ animPil' = global_reload_image
          /\ animPc' = "install"
       \/ /\ global_reload_image = "none"
          /\ animPil' = animPil
          /\ animPc' = "render"
    /\ UNCHANGED <<source_image, result_image, new_frame_available, animTerminated,
                   animator_thread>>
    /\ UNCHANGED <<globals, encVars, sendVars, loadVars, ctlVars, histVars>>
    /\ UNCHANGED driverVars

\* A load_image that leaves the reload signal as it is.
ReloadLeftPending == global_reload_image

\* Lines 387-388: finally, global_reload_image = None.
ReloadAfterInstall == "none"

\* Lines 369-388: install the image read, clear the reload signal.
AnimatorInstall ==
    /\ Alive
    /\ animator_thread = "running"
    /\ animPc = "install"
    /\ source_image' = InstalledImage(animPil, source_image)
    /\ global_reload_image' = ReloadAfterInstall
    /\ animPil' = "none"
    /\ lastInstalled' = animPil
    /\ animPc' = "render"
    /\ UNCHANGED <<result_image, new_frame_available, animTerminated, animator_thread>>
    /\ UNCHANGED <<global_animator_instance, global_encoder_instance,
                   global_latest_frame_sent, animation_running>>
    /\ UNCHANGED <<session, rawCount, sessBase, emitted, lastEmitted, lastTaken, failed,
                   lastUpload>>
    /\ UNCHANGED <<encVars, sendVars, loadVars, ctlVars>>
    /\ UNCHANGED driverVars

\* A render loop that goes on after an exception.
AnimatorThreadRetries == "running"

\* Lines 318-320: what an exception in a tick does to the render thread.
AnimatorThreadAfterException == "crashed"

\* A publish that sets the flag and leaves the old frame in place.
ImageNotReplaced(image) == result_image

\* Line 646: self.result_image = output_image_numpy.
WrittenImage(image) == image

\* Lines 592-647: without a source image the tick ends; otherwise the pose
\* is driven, the frame rendered and then published under
\* _animator_output_lock (644-647), or the tick raises (318-320: logged,
\* re-raised, fatal to the thread).
AnimatorRender ==
    /\ Alive
    /\ animator_thread = "running"
    /\ animPc = "render"
    /\ animPc' = "loop"
    /\ tickSource' = "idle"
    /\ UNCHANGED exitRaised
    /\ \/ /\ source_image = "none"
          /\ UNCHANGED <<animator_thread, result_image, new_frame_available, rawCount,
                         failed, flagSetBy>>
          /\ UNCHANGED <<poseVars, tickVars>>
       \/ /\ source_image # "none"
          /\ \E dt \in clockSteps, should_blink \in chance.blink,
                bi \in chance.blink_interval, tk \in chance.talk, sw \in chance.sway,
                si \in chance.sway_interval, nz \in chance.noise :
                PoseTick(dt, should_blink, bi, tk, sw, si, nz)
          /\ result_image' = WrittenImage(rawCount + 1)
          /\ rawCount' = rawCount + 1
          /\ new_frame_available' = TRUE
          /\ flagSetBy' = rawCount + 1
          /\ UNCHANGED <<animator_thread, failed>>
       \/ /\ source_image # "none"
          /\ animator_thread' = AnimatorThreadAfterException
          /\ failed' = failed \cup {"render"}
          /\ UNCHANGED <<result_image, new_frame_available, rawCount, flagSetBy>>
          /\ UNCHANGED <<poseVars, tickVars>>
    /\ UNCHANGED <<source_image, animTerminated, animPil>>
    /\ UNCHANGED <<session, sessBase, emitted, lastEmitted, lastTaken, lastUpload,
                   lastInstalled>>
    /\ UNCHANGED <<globals, encVars, sendVars, loadVars, ctlVars>>
    /\ UNCHANGED <<apiVars, envVars, animator_output_lock, output_image_numpy>>

\* ------------------------------------------------ encoder thread (670-757)
\* A bytes object is alive while something refers to it: an Encoder's
\* image_bytes (every Encoder stays referenced by its atexit registration,
\* line 748), the locals of a running encoder thread, the local of a stream.
Live(g) ==
    /\ g # None
    /\ \/ g = image_bytes
       \/ g \in retained
       \/ encoder_thread = "running" /\ g \in {encNew, previous_frame}
       \/ \E c \in Clients : sendPc[c] # "off" /\ sendFrame[c] = g

\* id() is a memory address, and the address of a dead object may be given to
\* a new one.  The values the mark can hold once frame g has been allocated:
\* unchanged, or, when the frame it named is dead, the address now being g's.
MarkAfterAllocate(g) ==
    IF global_latest_frame_sent # None /\ ~Live(global_latest_frame_sent)
    THEN {global_latest_frame_sent, g}
    ELSE {global_latest_frame_sent}

\* A delivery wait that does not look at the termination flag.
WaitIgnoresTermination ==
    \/ previous_frame = None
    \/ global_latest_frame_sent = previous_frame

\* Lines 712-718: the delivery wait is over.
DeliveryWaitOver ==
    \/ previous_frame = None
    \/ global_latest_frame_sent = previous_frame
    \/ encTerminated

\* A take that leaves the flag set.
FlagLeftSet == TRUE

\* Line 685: the flag after the Encoder has taken the frame.
FlagAfterTake == FALSE

\* A publish of the frame before the one being replaced.
PublishedBeforeLast ==
    IF previous_frame # None /\ previous_frame > sessBase + 1
    THEN previous_frame - 1
    ELSE encNew

\* Line 722: the frame the Encoder publishes.
PublishedFrame == encNew

\* Lines 723-725: what an exception while encoding does to the encoder thread.
EncoderThreadAfterException == "crashed"

\* encoder_update, lines 678-686: the loop ends when terminated; otherwise,
\* under _animator_output_lock, a new frame is taken and the flag cleared.
\* With global_animator_instance None, line 683 raises AttributeError, which
\* ends the thread (the threading excepthook prints it).
EncoderLoop ==
    /\ Alive
    /\ encoder_thread = "running"
    /\ encPc = "loop"
    /\ \/ /\ encTerminated
          /\ encoder_thread' = "returned"
          /\ previous_frame' = None
          /\ UNCHANGED <<encPc, image_rgba, new_frame_available, lastTaken, failed>>
       \/ /\ ~encTerminated
          /\ global_animator_instance = None
          /\ encoder_thread' = "crashed"
          /\ previous_frame' = None
          /\ failed' = failed \cup {"encode"}
          /\ UNCHANGED <<encPc, image_rgba, new_frame_available, lastTaken>>
       \/ /\ ~encTerminated
          /\ global_animator_instance # None
          /\ new_frame_available
          /\ image_rgba' = result_image
          /\ lastTaken' = result_image
          /\ new_frame_available' = FlagAfterTake
          /\ encPc' = "encode"
          /\ UNCHANGED <<encoder_thread, previous_frame, failed>>
    /\ UNCHANGED <<image_bytes, encTerminated, encNew, retained>>
    /\ UNCHANGED <<source_image, result_image, animTerminated, animator_thread, animPc, animPil>>
    /\ UNCHANGED <<session, rawCount, sessBase, emitted, lastEmitted, lastUpload,
                   lastInstalled>>
    /\ UNCHANGED <<globals, sendVars, loadVars, ctlVars>>
    /\ UNCHANGED driverVars

\* Lines 689-711: encode the frame taken into a new bytes object and note the
\* frame published so far; or the encoding raises (723-725: logged, fatal).
EncoderEncode ==
    /\ Alive
    /\ encoder_thread = "running"
    /\ encPc = "encode"
    /\ image_rgba' = None
    /\ \/ /\ encNew' = image_rgba
          /\ global_latest_frame_sent' \in MarkAfterAllocate(image_rgba)
          /\ previous_frame' = image_bytes
          /\ encPc' = "wait"
          /\ UNCHANGED <<encoder_thread, failed>>
       \/ /\ encoder_thread' = EncoderThreadAfterException
          /\ encPc' = "loop"
          /\ previous_frame' = None
          /\ encNew' = None
          /\ failed' = failed \cup {"encode"}
          /\ UNCHANGED global_latest_frame_sent
    /\ UNCHANGED <<image_bytes, encTerminated, retained>>
    /\ UNCHANGED <<global_animator_instance, global_encoder_instance,
                   animation_running, global_reload_image>>
    /\ UNCHANGED <<session, rawCount, sessBase, emitted, lastEmitted, lastTaken,
                   lastUpload, lastInstalled>>
    /\ UNCHANGED <<animVars, sendVars, loadVars, ctlVars>>
    /\ UNCHANGED driverVars

\* Lines 712-722: once the wait is over, publish the new EncodedFrame.
EncoderPublish ==
    /\ Alive
    /\ encoder_thread = "running"
    /\ encPc = "wait"
    /\ DeliveryWaitOver
    /\ image_bytes' = PublishedFrame
    /\ encNew' = None
    /\ encPc' = "loop"
    /\ UNCHANGED <<encTerminated, encoder_thread, image_rgba, previous_frame, retained>>
    /\ UNCHANGED <<globals, animVars, sendVars, loadVars, ctlVars, histVars>>
    /\ UNCHANGED driverVars

\* ------------------------------- the critical sections, statement by statement
\* Lines 645 and 682: `with _animator_output_lock` is entered when no thread
\* holds the lock.
LockIsFree == animator_output_lock = "none"

\* Lines 592-643: AnimatorRender up to the frame to publish, before line 645.
AnimatorCompute ==
    /\ Alive
    /\ animator_thread = "running"
    /\ animPc = "render"
    /\ \/ /\ source_image = "none"
          /\ animPc' = "loop"
          /\ tickSource' = "idle"
          /\ UNCHANGED exitRaised
          /\ UNCHANGED <<animator_thread, failed, output_image_numpy>>
          /\ UNCHANGED <<poseVars, tickVars>>
       \/ /\ source_image # "none"
          /\ \E dt \in clockSteps, should_blink \in chance.blink,
                bi \in chance.blink_interval, tk \in chance.talk, sw \in chance.sway,
                si \in chance.sway_interval, nz \in chance.noise :
                PoseTick(dt, should_blink, bi, tk, sw, si, nz)
          /\ output_image_numpy' = rawCount + 1
          /\ animPc' = "lock"
          /\ UNCHANGED <<animator_thread, failed, traceVars>>
       \/ /\ source_image # "none"
          /\ animator_thread' = AnimatorThreadAfterException
          /\ failed' = failed \cup {"render"}
          /\ animPc' = "loop"
          /\ tickSource' = "idle"
          /\ UNCHANGED exitRaised
          /\ UNCHANGED output_image_numpy
          /\ UNCHANGED <<poseVars, tickVars>>
    /\ UNCHANGED <<source_image, result_image, new_frame_available, animTerminated,
                   animPil>>
    /\ UNCHANGED <<session, rawCount, sessBase, emitted, lastEmitted, lastTaken,
                   lastUpload, lastInstalled>>
    /\ UNCHANGED <<globals, encVars, sendVars, loadVars, ctlVars>>
    /\ UNCHANGED <<apiVars, envVars, animator_output_lock, flagSetBy>>

\* Line 645: the render thread takes the lock.
AnimatorLock ==
    /\ Alive
    /\ animator_thread = "running"
    /\ animPc = "lock"
    /\ LockIsFree
    /\ animator_output_lock' = "animator"
    /\ animPc' = "write"
    /\ UNCHANGED <<source_image, result_image, new_frame_available, animTerminated,
                   animator_thread, animPil>>
    /\ UNCHANGED <<apiVars, poseVars, envVars, traceVars, tickVars, output_image_numpy, flagSetBy>>
    /\ UNCHANGED <<globals, encVars, sendVars, loadVars, ctlVars, histVars>>

\* Line 646.
AnimatorWrite ==
    /\ Alive
    /\ animator_thread = "running"
    /\ animPc = "write"
    /\ result_image' = WrittenImage(output_image_numpy)
    /\ rawCount' = output_image_numpy
    /\ animPc' = "flag"
    /\ UNCHANGED <<source_image, new_frame_available, animTerminated, animator_thread,
                   animPil>>
    /\ UNCHANGED <<session, sessBase, emitted, lastEmitted, lastTaken, failed,
                   lastUpload, lastInstalled>>
    /\ UNCHANGED <<apiVars, poseVars, envVars, traceVars, tickVars, lockVars>>
    /\ UNCHANGED <<globals, encVars, sendVars, loadVars, ctlVars>>

\* Line 647 and the end of the with block: set the flag, release the lock.
AnimatorFlag ==
    /\ Alive
    /\ animator_thread = "running"
    /\ animPc = "flag"
    /\ new_frame_available' = TRUE
    /\ flagSetBy' = rawCount
    /\ animator_output_lock' = "none"
    /\ output_image_numpy' = None
    /\ animPc' = "loop"
    /\ tickSource' = "idle"
    /\ UNCHANGED exitRaised
    /\ UNCHANGED <<source_image, result_image, animTerminated, animator_thread, animPil>>
    /\ UNCHANGED <<apiVars, poseVars, envVars, tickVars>>
    /\ UNCHANGED <<globals, encVars, sendVars, loadVars, ctlVars, histVars>>

\* Lines 678-682: the loop ends when the flag is set, else the encoder
\* thread takes the lock.
EncoderLock ==
    /\ Alive
    /\ encoder_thread = "running"
    /\ encPc = "loop"
    /\ \/ /\ encTerminated
          /\ encoder_thread' = "returned"
          /\ previous_frame' = None
          /\ UNCHANGED <<encPc, animator_output_lock>>
       \/ /\ ~encTerminated
          /\ LockIsFree
          /\ animator_output_lock' = "encoder"
          /\ encPc' = "test"
          /\ UNCHANGED <<encoder_thread, previous_frame>>
    /\ UNCHANGED <<image_bytes, encTerminated, image_rgba, encNew, retained>>
    /\ UNCHANGED <<apiVars, poseVars, envVars, traceVars, tickVars, output_image_numpy, flagSetBy>>
    /\ UNCHANGED <<globals, animVars, sendVars, loadVars, ctlVars, histVars>>

\* Line 683: read the flag; with no Animator the read raises and the with
\* block releases the lock.
EncoderTest ==
    /\ Alive
    /\ encoder_thread = "running"
    /\ encPc = "test"
    /\ \/ /\ global_animator_instance = None
          /\ encoder_thread' = EncoderThreadAfterException
          /\ previous_frame' = None
          /\ failed' = failed \cup {"encode"}
          /\ animator_output_lock' = "none"
          /\ encPc' = "loop"
       \/ /\ global_animator_instance # None
          /\ ~new_frame_available
          /\ animator_output_lock' = "none"
          /\ encPc' = "loop"
          /\ UNCHANGED <<encoder_thread, previous_frame, failed>>
       \/ /\ global_animator_instance # None
          /\ new_frame_available
          /\ encPc' = "read"
          /\ UNCHANGED <<encoder_thread, previous_frame, failed, animator_output_lock>>
    /\ UNCHANGED <<image_bytes, encTerminated, image_rgba, encNew, retained>>
    /\ UNCHANGED <<session, rawCount, sessBase, emitted, lastEmitted, lastTaken,
                   lastUpload, lastInstalled>>
    /\ UNCHANGED <<apiVars, poseVars, envVars, traceVars, tickVars, output_image_numpy, flagSetBy>>
    /\ UNCHANGED <<globals, animVars, sendVars, loadVars, ctlVars>>

\* Line 684: take the frame.
EncoderRead ==
    /\ Alive
    /\ encoder_thread = "running"
    /\ encPc = "read"
    /\ \/ /\ global_animator_instance = None
          /\ encoder_thread' = EncoderThreadAfterException
          /\ previous_frame' = None
          /\ failed' = failed \cup {"encode"}
          /\ animator_output_lock' = "none"
          /\ encPc' = "loop"
          /\ UNCHANGED <<image_rgba, lastTaken>>
       \/ /\ global_animator_instance # None
          /\ image_rgba' = result_image
          /\ lastTaken' = result_image
          /\ encPc' = "clear"
          /\ UNCHANGED <<encoder_thread, previous_frame, failed, animator_output_lock>>
    /\ UNCHANGED <<image_bytes, encTerminated, encNew, retained>>
    /\ UNCHANGED <<session, rawCount, sessBase, emitted, lastEmitted, lastUpload,
                   lastInstalled>>
    /\ UNCHANGED <<apiVars, poseVars, envVars, traceVars, tickVars, output_image_numpy, flagSetBy>>
    /\ UNCHANGED <<globals, animVars, sendVars, loadVars, ctlVars>>

\* Lines 685-686 and the end of the with block: clear the flag, release the
\* lock.
EncoderClear ==
    /\ Alive
    /\ encoder_thread = "running"
    /\ encPc = "clear"
    /\ animator_output_lock' = "none"
    /\ \/ /\ global_animator_instance = None
          /\ encoder_thread' = EncoderThreadAfterException
          /\ previous_frame' = None
          /\ failed' = failed \cup {"encode"}
          /\ encPc' = "loop"
          /\ UNCHANGED new_frame_available
       \/ /\ global_animator_instance # None
          /\ new_frame_available' = FlagAfterTake
          /\ encPc' = "encode"
          /\ UNCHANGED <<encoder_thread, previous_frame, failed>>
    /\ UNCHANGED <<image_bytes, encTerminated, image_rgba, encNew, retained>>
    /\ UNCHANGED <<source_image, result_image, animTerminated, animator_thread, animPc,
                   animPil>>
    /\ UNCHANGED <<session, rawCount, sessBase, emitted, lastEmitted, lastTaken,
                   lastUpload, lastInstalled>>
    /\ UNCHANGED <<apiVars, poseVars, envVars, traceVars, tickVars, output_image_numpy, flagSetBy>>
    /\ UNCHANGED <<globals, sendVars, loadVars, ctlVars>>

\* ------------------------------- the reads of current_emotion in a tick
\* Lines 592-611: AnimatorRender up to the drivers; current_emotion is read
\* for the preset, for the change test and in the drivers.
AnimatorPose ==
    /\ Alive
    /\ animator_thread = "running"
    /\ animPc = "render"
    /\ \/ /\ source_image = "none"
          /\ animPc' = "loop"
          /\ tickSource' = "idle"
          /\ UNCHANGED exitRaised
          /\ UNCHANGED <<animator_thread, failed>>
          /\ UNCHANGED <<poseVars, tickVars>>
       \/ /\ source_image # "none"
          /\ \E dt \in clockSteps, should_blink \in chance.blink,
                bi \in chance.blink_interval, tk \in chance.talk, sw \in chance.sway,
                si \in chance.sway_interval, nz \in chance.noise :
                PoseDrive(dt, should_blink, bi, tk, sw, si, nz)
          /\ animPc' = "remember"
          /\ UNCHANGED <<animator_thread, failed, traceVars, last_emotion>>
       \/ /\ source_image # "none"
          /\ animator_thread' = AnimatorThreadAfterException
          /\ failed' = failed \cup {"render"}
          /\ animPc' = "loop"
          /\ tickSource' = "idle"
          /\ UNCHANGED exitRaised
          /\ UNCHANGED <<poseVars, tickVars>>
    /\ UNCHANGED <<source_image, result_image, new_frame_available, animTerminated,
                   animPil>>
    /\ UNCHANGED <<session, rawCount, sessBase, emitted, lastEmitted, lastTaken,
                   lastUpload, lastInstalled>>
    /\ UNCHANGED <<globals, encVars, sendVars, loadVars, ctlVars>>
    /\ UNCHANGED <<apiVars, envVars, lockVars>>

\* Lines 613-647: current_emotion is read again for last_emotion; the frame
\* is rendered and published.
AnimatorRemember ==
    /\ Alive
    /\ animator_thread = "running"
    /\ animPc = "remember"
    /\ last_emotion' = current_emotion
    /\ result_image' = WrittenImage(rawCount + 1)
    /\ rawCount' = rawCount + 1
    /\ new_frame_available' = TRUE
    /\ flagSetBy' = rawCount + 1
    /\ animPc' = "loop"
    /\ tickSource' = "idle"
    /\ UNCHANGED exitRaised
    /\ UNCHANGED <<source_image, animTerminated, animator_thread, animPil>>
    /\ UNCHANGED <<current_pose, last_emotion_change_timestamp, last_blink_timestamp,
                   blink_interval, last_sway_target_timestamp, last_sway_target_pose,
                   sway_interval, breathing_epoch>>
    /\ UNCHANGED <<session, sessBase, emitted, lastEmitted, lastTaken, failed, lastUpload,
                   lastInstalled>>
    /\ UNCHANGED <<globals, encVars, sendVars, loadVars, ctlVars>>
    /\ UNCHANGED <<apiVars, envVars, tickVars, animator_output_lock, output_image_numpy>>

\* ------------------------------------------- result_feed.generate (163-221)
\* A client opens the stream: generate() starts with no send behind it.
ClientConnect(c) ==
    /\ Alive
    /\ c \in streams
    /\ sendPc[c] = "off"
    /\ sendPc' = [sendPc EXCEPT ![c] = "read"]
    /\ sendFrame' = [sendFrame EXCEPT ![c] = None]
    /\ lastEmitted' = [lastEmitted EXCEPT ![c] = None]
    /\ UNCHANGED <<session, rawCount, sessBase, emitted, lastTaken, failed, lastUpload,
                   lastInstalled>>
    /\ UNCHANGED <<globals, animVars, encVars, loadVars, ctlVars>>
    /\ UNCHANGED driverVars

\* Lines 176-194, 206, 219: read the published frame once.  Without an
\* Encoder the read raises AttributeError and the stream ends; with no frame
\* published yet the loop sleeps and reads again.  A frame is due at once on
\* a stream that has sent nothing, and due or not afterwards: when due it is
\* handed to the client as one multipart chunk (193-194) and generate() is
\* suspended in its yield; when not, the loop sleeps and reads again.
ClientRead(c) ==
    /\ Alive
    /\ sendPc[c] = "read"
    /\ \/ /\ global_encoder_instance = None
          /\ sendPc' = [sendPc EXCEPT ![c] = "off"]
          /\ sendFrame' = [sendFrame EXCEPT ![c] = None]
          /\ UNCHANGED <<emitted, lastEmitted>>
       \/ /\ global_encoder_instance # None
          /\ image_bytes # None
          /\ sendFrame' = [sendFrame EXCEPT ![c] = image_bytes]
          /\ emitted' = emitted \cup {image_bytes}
          /\ lastEmitted' = [lastEmitted EXCEPT ![c] = image_bytes]
          /\ sendPc' = [sendPc EXCEPT ![c] = "mark"]
       \/ /\ global_encoder_instance # None
          /\ image_bytes # None
          /\ lastEmitted[c] # None
          /\ sendFrame' = [sendFrame EXCEPT ![c] = image_bytes]
          /\ UNCHANGED <<sendPc, emitted, lastEmitted>>
    /\ UNCHANGED <<session, rawCount, sessBase, lastTaken, failed, lastUpload,
                   lastInstalled>>
    /\ UNCHANGED <<globals, animVars, encVars, loadVars, ctlVars>>
    /\ UNCHANGED driverVars

\* Line 195: resumed after the yield, record the frame as sent.
ClientMark(c) ==
    /\ Alive
    /\ sendPc[c] = "mark"
    /\ global_latest_frame_sent' = sendFrame[c]
    /\ sendPc' = [sendPc EXCEPT ![c] = "read"]
    /\ UNCHANGED <<global_animator_instance, global_encoder_instance,
                   animation_running, global_reload_image, sendFrame>>
    /\ UNCHANGED <<animVars, encVars, loadVars, ctlVars, histVars>>
    /\ UNCHANGED driverVars

\* A generator that records its frame as sent when it is closed.
MarkWrittenOnClose(c) == sendFrame[c]

\* Lines 193-195: a generator closed in its yield never runs line 195, the
\* mark stays as it is.
MarkAfterClose(c) == global_latest_frame_sent

\* The connection ends while generate() is suspended in its yield: the
\* generator is closed there.
ClientDisconnect(c) ==
    /\ Alive
    /\ sendPc[c] = "mark"
    /\ sendPc' = [sendPc EXCEPT ![c] = "off"]
    /\ sendFrame' = [sendFrame EXCEPT ![c] = None]
    /\ global_latest_frame_sent' = MarkAfterClose(c)
    /\ UNCHANGED <<global_animator_instance, global_encoder_instance,
                   animation_running, global_reload_image>>
    /\ UNCHANGED <<animVars, encVars, loadVars, ctlVars, histVars>>
    /\ UNCHANGED driverVars

\* ------------------------------------- exit() at process exit (324, 748)
\* Lines 324 and 748 register exit() at every start(), so after a relaunch
\* the exit() of each instance the relaunch has exited is called once more:
\* its handle is None (333, 757) and `None.join()` raises AttributeError.
EarlierInstances(sessions, current) == IF current = None THEN sessions ELSE sessions - 1

ExitsRaising(sessions, current) == 2 * EarlierInstances(sessions, current)

\* ------------------------------------------------------- launch (244-277)
\* Lines 257-259 and 331: a relaunch first tells the render loop to stop.
LaunchBegin ==
    /\ Alive
    /\ ctl = "idle"
    /\ session < launchLimit
    /\ \/ /\ global_animator_instance = None
          /\ ctl' = "create"
          /\ UNCHANGED animTerminated
       \/ /\ global_animator_instance # None
          /\ animTerminated' = TRUE
          /\ ctl' = "joinA"
    /\ UNCHANGED <<source_image, result_image, new_frame_available, animator_thread,
                   animPc, animPil>>
    /\ UNCHANGED <<globals, encVars, sendVars, loadVars, process, histVars>>
    /\ UNCHANGED driverVars

\* Lines 332-333 and 260: the join returns, the handle and then the global
\* reference to the Animator are cleared.
LaunchJoinAnimator ==
    /\ Alive
    /\ ctl = "joinA"
    /\ animator_thread # "running"
    /\ animator_thread' = "none"
    /\ global_animator_instance' = None
    /\ ctl' = "exitE"
    /\ UNCHANGED <<source_image, result_image, new_frame_available, animTerminated,
                   animPc, animPil>>
    /\ UNCHANGED <<global_encoder_instance, global_latest_frame_sent,
                   animation_running, global_reload_image>>
    /\ UNCHANGED <<encVars, sendVars, loadVars, process, histVars>>
    /\ UNCHANGED driverVars

\* Lines 261 and 755: only now the encode loop is told to stop.
LaunchExitEncoder ==
    /\ Alive
    /\ ctl = "exitE"
    /\ encTerminated' = TRUE
    /\ ctl' = "joinE"
    /\ UNCHANGED <<image_bytes, encoder_thread, encPc, image_rgba, encNew,
                   previous_frame, retained>>
    /\ UNCHANGED <<globals, animVars, sendVars, loadVars, process, histVars>>
    /\ UNCHANGED driverVars

\* Lines 756-757 and 262.
LaunchJoinEncoder ==
    /\ Alive
    /\ ctl = "joinE"
    /\ encoder_thread # "running"
    /\ encoder_thread' = "none"
    /\ global_encoder_instance' = None
    /\ ctl' = "create"
    /\ UNCHANGED <<image_bytes, encTerminated, encPc, image_rgba, encNew,
                   previous_frame, retained>>
    /\ UNCHANGED <<global_animator_instance, global_latest_frame_sent,
                   animation_running, global_reload_image>>
    /\ UNCHANGED <<animVars, sendVars, loadVars, process, histVars>>
    /\ UNCHANGED driverVars

\* Lines 264-266 (Animator.__init__ 291-306, Encoder.__init__ 666-668): a new
\* Animator and a new Encoder; or load_poser raises RuntimeError and the
\* process exits (275-277).
LaunchCreate ==
    /\ Alive
    /\ ctl = "create"
    /\ \/ /\ global_animator_instance' = session + 1
          /\ ResetAnimationState
          /\ global_encoder_instance' = session + 1
          /\ session' = session + 1
          /\ sessBase' = rawCount
          /\ failed' = {}
          /\ lastInstalled' = "none"
          /\ source_image' = "none"
          /\ result_image' = None
          /\ new_frame_available' = FALSE
          /\ animPc' = "loop"
          /\ animPil' = "none"
          /\ image_bytes' = None
          /\ retained' = retained \cup ({image_bytes} \ {None})
          /\ encPc' = "loop"
          /\ image_rgba' = None
          /\ encNew' = None
          /\ previous_frame' = None
          /\ ctl' = "loadimg"
          /\ UNCHANGED <<process, exitRaised>>
       \/ /\ process' = "dead"
          /\ exitRaised' = ExitsRaising(session, global_animator_instance)
          /\ UNCHANGED <<poseVars, tickVars>>
          /\ UNCHANGED <<global_animator_instance, global_encoder_instance, session,
                         sessBase, failed, lastInstalled, source_image, result_image,
                         new_frame_available, animPc, animPil, image_bytes, retained,
                         encPc, image_rgba, encNew, previous_frame, ctl>>
    /\ UNCHANGED <<global_latest_frame_sent, animation_running, global_reload_image>>
    /\ UNCHANGED <<animTerminated, animator_thread, encTerminated, encoder_thread>>
    /\ UNCHANGED <<rawCount, emitted, lastEmitted, lastTaken, lastUpload>>
    /\ UNCHANGED <<sendVars, loadVars>>
    /\ UNCHANGED <<apiVars, envVars, tickSource, lockVars>>

\* Lines 269-270 and 362-367: load_image(inital.png) uses the pending reload
\* image instead of the file when there is one.
LaunchLoadImage ==
    /\ Alive
    /\ ctl = "loadimg"
    /\ animPil' = IF global_reload_image # "none" THEN global_reload_image
                  ELSE "placeholder"
    /\ ctl' = "install"
    /\ UNCHANGED <<source_image, result_image, new_frame_available, animTerminated,
                   animator_thread, animPc>>
    /\ UNCHANGED <<globals, encVars, sendVars, loadVars, process, histVars>>
    /\ UNCHANGED driverVars

\* Lines 369-388, then 272 (Animator.start, 311-324): the render thread runs.
LaunchStartAnimator ==
    /\ Alive
    /\ ctl = "install"
    /\ source_image' = InstalledImage(animPil, source_image)
    /\ global_reload_image' = ReloadAfterInstall
    /\ animPil' = "none"
    /\ lastInstalled' = animPil
    /\ animTerminated' = FALSE
    /\ animator_thread' = "running"
    /\ ctl' = "startE"
    /\ UNCHANGED <<result_image, new_frame_available, animPc>>
    /\ UNCHANGED <<global_animator_instance, global_encoder_instance,
                   global_latest_frame_sent, animation_running>>
    /\ UNCHANGED <<session, rawCount, sessBase, emitted, lastEmitted, lastTaken, failed,
                   lastUpload>>
    /\ UNCHANGED <<encVars, sendVars, loadVars, process>>
    /\ UNCHANGED driverVars

\* Line 273 (Encoder.start, 670-748): the encoder thread runs.
LaunchStartEncoder ==
    /\ Alive
    /\ ctl = "startE"
    /\ encTerminated' = FALSE
    /\ encoder_thread' = "running"
    /\ ctl' = "idle"
    /\ UNCHANGED <<image_bytes, encPc, image_rgba, encNew, previous_frame, retained>>
    /\ UNCHANGED <<globals, animVars, sendVars, loadVars, process, histVars>>
    /\ UNCHANGED driverVars

\* --------------------------------------------- process exit (324, 748)
\* atexit runs the registered exit() methods last registered first: the
\* Encoder's (755), then the Animator's, then those of earlier instances.
\* Before any launch nothing is registered.
ExitBegin ==
    /\ Alive
    /\ ctl = "idle"
    /\ \/ /\ session = 0
          /\ process' = "dead"
          /\ UNCHANGED <<ctl, encTerminated>>
          /\ UNCHANGED traceVars
       \/ /\ session > 0
          /\ encTerminated' = TRUE
          /\ ctl' = "atexitE"
          /\ UNCHANGED process
          /\ UNCHANGED traceVars
    /\ UNCHANGED <<image_bytes, encoder_thread, encPc, image_rgba, encNew,
                   previous_frame, retained>>
    /\ UNCHANGED <<globals, animVars, sendVars, loadVars, histVars>>
    /\ UNCHANGED <<apiVars, poseVars, envVars, tickVars, lockVars>>

\* Lines 756-757, then the Animator's exit, line 331.
ExitJoinEncoder ==
    /\ Alive
    /\ ctl = "atexitE"
    /\ encoder_thread # "running"
    /\ encoder_thread' = "none"
    /\ animTerminated' = TRUE
    /\ ctl' = "atexitA"
    /\ UNCHANGED <<image_bytes, encTerminated, encPc, image_rgba, encNew,
                   previous_frame, retained>>
    /\ UNCHANGED <<source_image, result_image, new_frame_available, animator_thread,
                   animPc, animPil>>
    /\ UNCHANGED <<globals, sendVars, loadVars, process, histVars>>
    /\ UNCHANGED driverVars

\* Lines 332-333; the interpreter then ends, and every daemon thread with it.
ExitJoinAnimator ==
    /\ Alive
    /\ ctl = "atexitA"
    /\ animator_thread # "running"
    /\ animator_thread' = "none"
    /\ process' = "dead"
    /\ exitRaised' = ExitsRaising(session, global_animator_instance)
    /\ UNCHANGED <<source_image, result_image, new_frame_available, animTerminated,
                   animPc, animPil>>
    /\ UNCHANGED <<globals, encVars, sendVars, loadVars, ctl, histVars>>
    /\ UNCHANGED <<apiVars, poseVars, envVars, tickVars, lockVars, tickSource>>

\* ------------------------------------------------------------------ Spec
ApiStep == Unload \/ LoadFileBegin \/ LoadFileDecode \/ LoadFileFinally

AnimatorStep == AnimatorLoop \/ AnimatorReload \/ AnimatorInstall \/ AnimatorRender

EncoderStep == EncoderLoop \/ EncoderEncode \/ EncoderPublish

ClientStep == \E c \in Clients :
    ClientConnect(c) \/ ClientRead(c) \/ ClientMark(c)
    \/ ClientDisconnect(c)

LaunchStep == LaunchBegin \/ LaunchJoinAnimator \/ LaunchExitEncoder
              \/ LaunchJoinEncoder \/ LaunchCreate \/ LaunchLoadImage
              \/ LaunchStartAnimator \/ LaunchStartEncoder

ExitStep == ExitBegin \/ ExitJoinEncoder \/ ExitJoinAnimator

Next == ApiStep \/ AnimatorStep \/ EncoderStep \/ ClientStep \/ LaunchStep \/ ExitStep

Spec == Init /\ [][Next]_vars

\* One stream, uploads with alpha channel, a run three frames longer: long
\* enough for a relaunched session to render four frames.
InitLong ==
    /\ Imported
    /\ PipelineOnly
    /\ uploads = {"rgba"}
    /\ streams = {"c1"}
    /\ frameLimit = MaxFrames + 3
    /\ launchLimit = MaxSessions

LongSpec == InitLong /\ [][Next]_vars

\* The threads are scheduled fairly, and a join returns once its thread has
\* ended.  Clients and API calls come from outside: no fairness for them.
JoinStep == LaunchJoinAnimator \/ LaunchJoinEncoder \/ ExitJoinEncoder
            \/ ExitJoinAnimator

\* One stream, uploads with alpha channel, a run one frame shorter.
InitFair ==
    /\ Imported
    /\ PipelineOnly
    /\ uploads = {"rgba"}
    /\ streams = {"c1"}
    /\ frameLimit = MaxFrames - 1
    /\ launchLimit = MaxSessions

FairSpec ==
    /\ InitFair
    /\ [][Next]_vars
    /\ WF_vars(AnimatorStep)
    /\ WF_vars(EncoderStep)
    /\ WF_vars(JoinStep)

\* Uploads of every kind, one stream, a run two frames shorter.
InitImage ==
    /\ Imported
    /\ PipelineOnly
    /\ uploads = UploadKinds
    /\ streams = {"c1"}
    /\ frameLimit = MaxFrames - 2
    /\ launchLimit = MaxSessions

ImageSpec == InitImage /\ [][Next]_vars

\* The control surface is called while the pipeline starts, runs and is
\* relaunched: no stream, one frame.
InitControl ==
    /\ Imported
    /\ callers = "classifier"
    /\ StillWorld
    /\ uploads = {"rgba"}
    /\ streams = {}
    /\ frameLimit = MaxFrames - 2
    /\ launchLimit = MaxSessions

ControlStep == SetEmotion \/ StartTalking \/ StopTalking

NextControl == ControlStep \/ ApiStep \/ AnimatorStep \/ EncoderStep \/ LaunchStep

ControlSpec == InitControl /\ [][NextControl]_vars

\* Two clients stream at once; two frames.
InitTwo ==
    /\ Imported
    /\ PipelineOnly
    /\ uploads = {"rgba"}
    /\ streams = Clients
    /\ frameLimit = MaxFrames - 1
    /\ launchLimit = MaxSessions

\* The process does not exit while the clients stream.
NextTwo == ApiStep \/ AnimatorStep \/ EncoderStep \/ ClientStep \/ LaunchStep

TwoSpec == InitTwo /\ [][NextTwo]_vars

\* The plugin is launched once.
StartStep == LaunchBegin \/ LaunchCreate \/ LaunchLoadImage \/ LaunchStartAnimator
                 \/ LaunchStartEncoder

\* The character is driven through emotions, talking and time while it is
\* rendered; no stream.
NextPose == ControlStep \/ ApiStep \/ AnimatorStep \/ EncoderStep \/ StartStep

\* The posed world, the endpoint calling.
InitPose ==
    /\ Imported
    /\ callers = "endpoint"
    /\ uploads = {"rgba"}
    /\ streams = {}
    /\ frameLimit = MaxFrames - 1
    /\ launchLimit = MaxSessions - 1
    /\ world = "posed"

PoseSpec == InitPose /\ [][NextPose]_vars

\* The blinking world, the endpoint calling with the overriding emotion;
\* three frames.
InitBlink ==
    /\ Imported
    /\ callers = "confused"
    /\ uploads = {"rgba"}
    /\ streams = {}
    /\ frameLimit = MaxFrames
    /\ launchLimit = MaxSessions - 1
    /\ world = "blinking"

\* Nobody talks and the animation is not stopped once an upload has
\* started it.
UploadStep == LoadFileBegin \/ LoadFileDecode \/ LoadFileFinally

NextBlink == SetEmotion \/ UploadStep \/ AnimatorStep \/ EncoderStep \/ StartStep

BlinkSpec == InitBlink /\ [][NextBlink]_vars

\* The render thread reads current_emotion at several lines of a tick
\* while setEmotion is called; the posed world, two frames.
EmotionStep == AnimatorLoop \/ AnimatorReload \/ AnimatorInstall \/ AnimatorPose
                   \/ AnimatorRemember

NextRace == SetEmotion \/ UploadStep \/ EmotionStep \/ EncoderStep \/ StartStep

RaceSpec == InitPose /\ [][NextRace]_vars

\* One client stays on the stream of a pipeline that is launched once: no
\* unload, no relaunch, no process exit, the client never disconnects.
ConnectStep == \E c \in Clients : ClientConnect(c)

SendStep == \E c \in Clients : ClientRead(c) \/ ClientMark(c)

NextServe == UploadStep \/ AnimatorStep \/ EncoderStep \/ ConnectStep \/ SendStep
                \/ StartStep

InitServe ==
    /\ Imported
    /\ PipelineOnly
    /\ uploads = {"rgba"}
    /\ streams = {"c1"}
    /\ frameLimit = MaxFrames
    /\ launchLimit = MaxSessions - 1

\* The render, encode and send loops are threads of the process and are
\* scheduled again and again (each sleeps 10 ms and runs its body again:
\* lines 323, 745, 206); uploads and connections come from outside.
ServeSpec ==
    /\ InitServe
    /\ [][NextServe]_vars
    /\ WF_vars(AnimatorStep)
    /\ WF_vars(EncoderStep)
    /\ WF_vars(SendStep)

\* The breathing world, the endpoint calling.
InitBreath ==
    /\ Imported
    /\ callers = "endpoint"
    /\ uploads = {"rgba"}
    /\ streams = {}
    /\ frameLimit = MaxFrames - 1
    /\ launchLimit = MaxSessions - 1
    /\ world = "breathing"

BreathSpec == InitBreath /\ [][NextPose]_vars

\* The render and encoder threads run statement by statement through their
\* critical sections; no stream.
LockStep == AnimatorLoop \/ AnimatorReload \/ AnimatorInstall \/ AnimatorCompute
                \/ AnimatorLock \/ AnimatorWrite \/ AnimatorFlag \/ EncoderLock
                \/ EncoderTest \/ EncoderRead \/ EncoderClear \/ EncoderEncode
                \/ EncoderPublish

NextLock == ApiStep \/ LockStep \/ LaunchStep

InitLock ==
    /\ Imported
    /\ PipelineOnly
    /\ uploads = {"rgba"}
    /\ streams = {}
    /\ frameLimit = MaxFrames - 1
    /\ launchLimit = MaxSessions

LockSpec == InitLock /\ [][NextLock]_vars

\* ---------------------------------------------------------------- claims
\* EncodedFrames the encode stage holds that no client has been handed yet.
UndeliveredEncoded == ({image_bytes, encNew} \ {None}) \ emitted

\* RawFrames published in this session, and frames of it delivered.
PublishedInSession == rawCount - sessBase
DeliveredInSession == Cardinality({g \in emitted : g > sessBase})

\* C1: the render tick never publishes a RawFrame (a step that raises
\* rawCount, writes result_image and sets the flag) while new_frame_available
\* is still set from the previous publish.
C1_NoPublishOverUnconsumed ==
    [][rawCount' # rawCount => ~new_frame_available /\ new_frame_available']_vars

\* C1 witness: a second frame of a session has been published, after the
\* Encoder took the first.
C1_SecondPublish ==
    /\ rawCount >= sessBase + 2
    /\ new_frame_available
    /\ lastTaken = rawCount - 1

\* C2: whenever the Encoder replaces its published EncodedFrame, the frame
\* replaced has been emitted to a client and is the one recorded in the mark.
C2_ReplacedFrameWasSent ==
    [][(image_bytes # None /\ image_bytes' # None /\ image_bytes' # image_bytes)
        => (image_bytes \in emitted /\ global_latest_frame_sent = image_bytes)]_vars

\* C3: the generations emitted on one client stream never decrease.
C3_StreamNeverGoesBack ==
    [][\A c \in Clients :
          lastEmitted'[c] = None \/ lastEmitted'[c] >= lastEmitted[c]]_vars

\* C3 witness: a stream has emitted a frame after an older one.
C3_StreamAdvanced ==
    \E c \in Clients :
        /\ sendPc[c] = "mark"
        /\ lastEmitted[c] >= 2
        /\ lastEmitted[c] = sendFrame[c]
        /\ lastEmitted[c] - 1 \in emitted

\* C4: every take is of a RawFrame newer than every frame taken before, and
\* every publish of the Encoder is of a frame derived from a newer RawFrame
\* than every frame published before.
C4_GenerationsIncrease ==
    [][/\ (encPc = "loop" /\ encPc' = "encode") => lastTaken' > lastTaken
       /\ (encPc = "wait" /\ encPc' = "loop")
            => \A g \in retained \cup {image_bytes} : image_bytes' > g]_vars

\* C4 witness: the Encoder has published a second frame.
C4_SecondEncodedPublished ==
    /\ image_bytes >= 2
    /\ previous_frame = image_bytes - 1
    /\ encPc = "loop"

\* C5 as stated: at most one undelivered EncodedFrame, published or not.
C5_AtMostOneUndelivered == Cardinality(UndeliveredEncoded) <= 1

\* C5 as amended: at most two undelivered EncodedFrames, the published one
\* and one newer frame the Encoder holds back in its delivery wait.
C5_AtMostTwoUndelivered ==
    /\ Cardinality(UndeliveredEncoded) <= 2
    /\ encNew # None => (encPc = "wait" /\ encNew > image_bytes)

\* C5 witness: a published frame and a held-back frame, both undelivered.
C5_TwoUndelivered ==
    /\ Cardinality(UndeliveredEncoded) = 2
    /\ encPc = "wait"

\* C6: in one session, the RawFrames published exceed the distinct frames
\* delivered by at most 3.
C6_ProductionBounded == PublishedInSession - DeliveredInSession <= 3

\* A loop has been told to stop and its thread still runs, or launch() or
\* an exit handler is inside a join.
Stopping ==
    /\ Alive
    /\ \/ animTerminated /\ animator_thread = "running"
       \/ encTerminated /\ encoder_thread = "running"
       \/ ctl \in {"joinA", "joinE", "atexitE", "atexitA"}

\* C7: once exit() has set a loop's termination flag the loop's thread ends
\* and the join of launch() or of the exit handler returns.
C7_TerminationFlagEndsLoop == Stopping ~> ~Stopping

\* C7 witness: the flag is set while the Encoder polls for the delivery of
\* the previous frame and no client is connected.
C7_TerminatedWhilePolling ==
    /\ encTerminated
    /\ encoder_thread = "running"
    /\ encPc = "wait"
    /\ previous_frame # None
    /\ global_latest_frame_sent # previous_frame
    /\ \A c \in Clients : sendPc[c] = "off"

\* C8: a loop that is still running never finds a global reference it reads
\* released: the references are cleared only after both loops have ended.
C8_NoRunningLoopSeesReleased ==
    (animator_thread = "running" \/ encoder_thread = "running")
        => (global_animator_instance # None /\ global_encoder_instance # None)

\* A step in which the named loop fails.
Fails(loop) == loop \in failed' /\ loop \notin failed

\* C9: an exception in a render tick or an encoder iteration ends that loop's
\* thread and nothing else; for the rest of the session the failed loop
\* does not run again and publishes no further frame.
C9_FailureStopsItsLoopOnly ==
    [][/\ Fails("render") => /\ animator_thread' = "crashed"
                             /\ encoder_thread' = encoder_thread
                             /\ process' = process
                             /\ sendPc' = sendPc
       /\ Fails("encode") => /\ encoder_thread' = "crashed"
                             /\ animator_thread' = animator_thread
                             /\ process' = process
                             /\ sendPc' = sendPc
       /\ ("render" \in failed /\ session' = session)
             => (rawCount' = rawCount /\ animator_thread' # "running")
       /\ ("encode" \in failed /\ session' = session)
             => (image_bytes' = image_bytes /\ encoder_thread' # "running")]_vars

\* C9 witness: the render loop has failed, and the encode loop, a client
\* stream and the process are running.
C9_RenderFailedOthersRun ==
    /\ "render" \in failed
    /\ animator_thread = "crashed"
    /\ encoder_thread = "running"
    /\ process = "running"
    /\ \E c \in Clients : sendPc[c] = "mark"

\* A step in which load_image runs, in a render tick or in launch().
InstallStep ==
    \/ animPc = "install" /\ animPc' # "install"
    \/ ctl = "install" /\ ctl' = "startE"

\* A step in which talkinghead_load_file decodes the upload.
DecodeStep == loadPc = "open" /\ loadPc' = "finally"

\* C10 as stated: every failed decode leaves the placeholder pending, and
\* every failed load_image makes the placeholder the source image.
C10_EveryFailureGivesPlaceholder ==
    [][/\ (DecodeStep /\ lastUpload' \in {"garbage", "oserror"})
             => global_reload_image' = "placeholder"
       /\ (InstallStep /\ animPil \in {"noalpha", "broken"})
             => source_image' = "placeholder"]_vars

\* C10 as amended: only data PIL cannot identify falls back to the
\* placeholder; any other failed decode leaves the pending image as it was;
\* an image without alpha channel clears the source image; any other failure
\* of load_image leaves the source image as it was; load_image always clears
\* the pending image, and none of this ends the render thread.
C10_FailureOutcomes ==
    [][/\ (DecodeStep /\ lastUpload' = "garbage")
             => global_reload_image' = "placeholder"
       /\ (DecodeStep /\ lastUpload' = "oserror")
             => global_reload_image' = global_reload_image
       /\ DecodeStep => animator_thread' = animator_thread
       /\ (InstallStep /\ animPil = "placeholder")
             => source_image' = "placeholder"
       /\ (InstallStep /\ animPil = "noalpha") => source_image' = "none"
       /\ (InstallStep /\ animPil = "broken") => source_image' = source_image
       /\ InstallStep => global_reload_image' = "none"
       /\ (InstallStep /\ animPc = "install")
             => (animator_thread' = "running" /\ animPc' = "render")]_vars

\* C10 witness: an image without alpha channel has been loaded by a render
\* tick; the render thread runs, nothing else holds the next tick back, and
\* there is no source image to render from.
C10_NoAlphaClearedSource ==
    /\ lastUpload = "noalpha"
    /\ lastInstalled = "noalpha"
    /\ source_image = "none"
    /\ animator_thread = "running"
    /\ animPc = "loop"
    /\ animation_running
    /\ ~new_frame_available
    /\ ~animTerminated
    /\ rawCount < frameLimit

\* A call of setEmotion.
SetEmotionStep == callFlip' # callFlip

\* C11: every call of setEmotion returns normally, in every state, and a
\* call whose labels of highest score are all unknown sets the current
\* emotion to "neutral" and logs the warning.
C11_UnknownLabelGivesNeutral ==
    [][SetEmotionStep =>
          /\ lastOutcome' = "returned"
          /\ (lastMax' \cap Emotions = {} =>
                 current_emotion' = "neutral" /\ lastWarned')]_vars

SendLoopEnds(c) == sendPc[c] # "off" /\ sendPc'[c] = "off"

\* C13: the end of one client's send loop, by failure or disconnect at any
\* point, leaves the RawFrame slot, the consumption flag, the published
\* EncodedFrame, the delivery mark and the animator's and encoder's state as
\* they are, and leaves every other client's stream and the frames emitted
\* to it as they are.
C13_SendLoopEndChangesNothingShared ==
    [][\A c \in Clients : SendLoopEnds(c) =>
          /\ UNCHANGED <<globals, animVars, encVars, ctlVars, apiVars>>
          /\ emitted' = emitted
          /\ \A d \in Clients \ {c} :
                /\ sendPc'[d] = sendPc[d]
                /\ sendFrame'[d] = sendFrame[d]
                /\ lastEmitted'[d] = lastEmitted[d]]_vars

\* C13 witness: one client's stream has ended after a frame was emitted on
\* it, and the other client has since been sent a newer frame.
C13_OtherClientGoesOn ==
    \E c \in Clients : \E d \in Clients \ {c} :
        /\ sendPc[c] = "off"
        /\ lastEmitted[c] # None
        /\ sendPc[d] = "mark"
        /\ lastEmitted[d] # None
        /\ lastEmitted[d] > lastEmitted[c]
        /\ global_latest_frame_sent # None

\* The legal range of a morph channel: [-1, 1] for the rotations that sway,
\* [0, 1] for the others.
LegalRange(k) == IF k \in SWAYPARTS THEN -Scale..Scale ELSE 0..Scale

\* C14: with presets within the legal ranges, after every render tick every
\* channel of current_pose is within its legal range, whatever ticks,
\* emotion changes and talking toggles came before.
C14_PoseWithinLegalRanges ==
    current_pose # NoPose => \A k \in Channels : current_pose[k] \in LegalRange(k)

\* C14 witness: after a tick in "neutral" and a tick in "joy", talking, the
\* eye closed by a blink, the mouth fully open and the head on its way from
\* one end of its range to the other.
C14_PoseAtRangeEnds ==
    /\ current_pose # NoPose
    /\ rawCount - sessBase = 2
    /\ last_emotion = "joy"
    /\ talked
    /\ current_pose["mouth_aaa_index"] = Scale
    /\ current_pose["eye_wink_left_index"] = Scale
    /\ current_pose["head_x_index"] < 0
    /\ last_sway_target_pose["head_x_index"] = Scale

\* A render tick that computed a pose.
RenderTick == rawCount' = rawCount + 1

\* C15: at a tick at which the emotion is unchanged and the hold interval
\* has not elapsed, the cached sway target (last_sway_target_pose) is the
\* same after the tick as before it: the micro-jitter does not reach it.
C15_CachedSwayTargetKept ==
    [][(RenderTick /\ ~recomputed' /\ last_sway_target_pose # NoPose)
          => last_sway_target_pose' = last_sway_target_pose]_vars

\* C16: the sway target picked at a recomputation, target_value plus the
\* random value of line 505, lies within [-random_max, random_max].
C16_SwayTargetWithinRandomMax ==
    swayPicked \in -random_max..random_max

\* C17: the breathing phase computed at a tick is the fractional part of
\* the time since the animation state was reset, counted in cycles of four
\* seconds (here in quarters of a cycle).
C17_PhaseFollowsTimeSinceReset ==
    cycle_pos = (now - resetTime) % breathing_cycle_duration

\* C18 as claimed: at the tick after talking has stopped the mouth-open
\* channel is the same after the tick as before it.
C18_MouthKeptAfterTalking ==
    [][(RenderTick /\ talked /\ ~is_talking)
          => current_pose'["mouth_aaa_index"] = current_pose["mouth_aaa_index"]]_vars

\* C18: at every tick while the talking flag is set the mouth-open channel
\* is set to a value in [0, 1]; at a tick while it is not set the talking
\* driver changes nothing, the mouth-open channel is the value the
\* integrator gave it.
C18_TalkingDriverActsOnlyWhileTalking ==
    [][RenderTick =>
          /\ (is_talking => current_pose'["mouth_aaa_index"] \in 0..Scale)
          /\ (~is_talking =>
                 current_pose'["mouth_aaa_index"] = integrated'["mouth_aaa_index"])]_vars

\* C18 witness: the tick after talking stopped has moved the fully open
\* mouth a tenth of the way toward the closed mouth of the preset.
C18_MouthMovedAfterTalking ==
    /\ current_pose # NoPose
    /\ rawCount - sessBase = 2
    /\ ~talked
    /\ last_emotion = "neutral"
    /\ current_pose["mouth_aaa_index"] = Scale - Scale \div StepDivisor

\* The Encoder takes the buffer inside its critical section.
TakeStep == encPc = "read" /\ encPc' = "clear"

\* C19: whenever the Encoder has observed the flag set, it holds the lock,
\* the flag is still set, and the buffer it takes in that critical section
\* is the one written by the publish that set the flag; the render thread
\* is outside its critical section meanwhile.
C19_TakenFrameIsTheOnePublished ==
    [][TakeStep =>
          /\ animator_output_lock = "encoder"
          /\ new_frame_available
          /\ image_rgba' = flagSetBy
          /\ animPc \notin {"write", "flag"}]_vars

\* C19 witness: the Encoder, holding the lock, has taken the second frame
\* rendered, published by the Animator of a relaunch.
C19_SecondFrameTaken ==
    /\ encPc = "clear"
    /\ animator_output_lock = "encoder"
    /\ new_frame_available
    /\ image_rgba = flagSetBy
    /\ image_rgba > 1
    /\ session > 1

\* The render thread is inside load_image, swapping the source image.
Swapping == animator_thread = "running" /\ animPc = "install"

TickGoesOn == animPc = "loop" /\ animPc' = "reload"

\* A render tick returns at line 593: no source image after the reload.
TickEndsWithoutSource ==
    /\ animator_thread = "running"
    /\ animPc = "render"
    /\ source_image = "none"
    /\ animPc' = "loop"

\* C21 as claimed: a render tick that starts with no source image loaded
\* drives no pose and renders and publishes nothing.
C21_TickStartedWithoutSourceIsSkipped ==
    [][tickSource = "none" =>
          UNCHANGED <<poseVars, result_image, new_frame_available, rawCount>>]_vars

\* C21: a render tick goes on only while the animation runs and the
\* published RawFrame has been consumed, and a frame is rendered only inside
\* such a tick; a tick that has no source image once a pending reload has
\* been performed returns and leaves the animation state, the RawFrame slot
\* and the consumption flag unchanged.
C21_SkippedTickChangesNothing ==
    [][/\ TickGoesOn => (animation_running /\ ~new_frame_available)
       /\ rawCount' # rawCount => tickSource # "idle"
       /\ TickEndsWithoutSource =>
              UNCHANGED <<poseVars, source_image, result_image, new_frame_available,
                          rawCount>>]_vars

\* C21 witness: a tick that started without a source image and had no
\* reload to perform is about to return at line 593.
C21_TickAboutToEndWithoutSource ==
    /\ animator_thread = "running"
    /\ animPc = "render"
    /\ tickSource = "none"
    /\ source_image = "none"
    /\ global_reload_image = "none"

\* C22 as claimed: the DeliveryMark is unset or names a frame that has been
\* emitted to at least one client.
C22_MarkNamesEmittedFrame ==
    global_latest_frame_sent = None \/ global_latest_frame_sent \in emitted

\* The send loop of client c ends at its read of line 177, not in its yield.
SendLoopDies(c) == sendPc[c] = "read" /\ sendPc'[c] = "off"

\* C23 as claimed: a send loop that has emitted a published frame goes on
\* emitting whatever happens to the render and encode loops; it never ends
\* on its own.
C23_SendLoopKeepsEmitting ==
    [][\A c \in Clients : lastEmitted[c] # None => ~SendLoopDies(c)]_vars

\* The render tick accepted a blink: the blink timestamp is the tick's time.
BlinkAccepted == RenderTick /\ last_blink_timestamp' = now'

\* C24: a tick accepts a blink only when one was drawn and the interval of
\* the previous accepted blink has elapsed, or no blink was accepted before,
\* or the emotion is "confusion" and was entered less than ten seconds ago;
\* an accepted blink sets both eye-wink channels to 1.0 for the tick and
\* restarts the timestamp and an interval of two to five seconds; any other
\* tick leaves the timestamp and the interval as they were.
C24_BlinkAcceptedOutsideIntervalOnly ==
    [][RenderTick =>
          IF BlinkAccepted
          THEN /\ blinkDrawn' /\ blinkGate' # "closed"
               /\ current_pose'["eye_wink_left_index"] = Scale
               /\ current_pose'["eye_wink_right_index"] = Scale
               /\ blink_interval' \in 2..5
               /\ \/ blink_interval = None
                  \/ now' - last_blink_timestamp >= blink_interval
                  \/ /\ current_emotion = "confusion"
                     /\ now' - last_emotion_change_timestamp' < 10
          ELSE UNCHANGED <<last_blink_timestamp, blink_interval>>]_vars

\* C24 witness: the third tick accepted a blink inside the interval of the
\* previous accepted blink, the emotion "confusion" entered one second
\* before.
C24_BlinkUnderOverride ==
    /\ rawCount = 3
    /\ blinkDrawn /\ blinkGate = "override"
    /\ last_blink_timestamp = now
    /\ now - last_emotion_change_timestamp = 1
    /\ current_pose["eye_wink_left_index"] = Scale
    /\ current_pose["eye_wink_right_index"] = Scale

\* The send loop of client c runs line 195.
MarkStep(c) == sendPc[c] = "mark" /\ sendPc'[c] = "read"

\* C25 as claimed: no send loop sets the DeliveryMark to a frame of an older
\* generation than the frame it names.
C25_MarkNeverMovesBack ==
    [][\A c \in Clients :
          (MarkStep(c) /\ global_latest_frame_sent # None) =>
              global_latest_frame_sent' >= global_latest_frame_sent]_vars

\* The reload signal is cleared (line 388).
SignalCleared == global_reload_image # "none" /\ global_reload_image' = "none"

\* C26 as claimed: a render tick clears the reload signal only while it
\* holds the image that the tick has installed.
C26_ClearedSignalHeldInstalledImage ==
    [][(Swapping /\ SignalCleared) => lastInstalled' = global_reload_image]_vars

\* The drivers of a tick have run (lines 595-611).
DriveStep == animPc = "render" /\ animPc' = "remember"

\* C27 as claimed: the first tick that takes the preset of another emotion
\* than the tick before updates last_emotion_change_timestamp and picks a
\* new sway target, from the preset it took.
C27_ChangeRegisteredOnFirstTick ==
    [][(DriveStep /\ presetUsed' # presetUsed) =>
          /\ last_emotion_change_timestamp' = now'
          /\ recomputed'
          /\ swayBase' = emotions[presetUsed']["head_x_index"]]_vars

\* C28 as claimed: no exit() that the program calls raises, at a relaunch
\* or at process exit.
C28_EveryExitCompletes == exitRaised = 0

\* EncodedFrame f is the published one while the pipeline is consumed.
Consumed(f) ==
    /\ image_bytes = f
    /\ sendPc["c1"] # "off"
    /\ animation_running
    /\ source_image # "none"
    /\ ~animTerminated /\ ~encTerminated
    /\ failed = {}
    /\ Alive

\* The animation is paused, a loop has been told to stop or has raised, or
\* the process has ended.
Interrupted ==
    \/ ~animation_running
    \/ animTerminated \/ encTerminated
    \/ failed # {}
    \/ ~Alive

\* EncodedFrame f has been delivered and a RawFrame newer than f has been
\* published (the run ends with frame frameLimit).
MovedOn(f) == f \in emitted /\ (f < frameLimit => rawCount > f)

====
